---- MODULE Spec2Model ----
(***************************************************************************)
(* GitLab CI/CD variable manager (src/gitlab_env_mgr.py): one invocation   *)
(* of main() runs one of export / import / diff / push against the         *)
(* variables of a GitLab project, reading or writing one JSON file.        *)
(*                                                                         *)
(* A variable is a record; a JSON object or Python dict is a function      *)
(* whose DOMAIN is the set of keys it has, so dict.get(k, d) is Get.       *)
(* The remote store of a project is a dict keyed by variable key.  Every   *)
(* remote call is one step; create/update/delete may fail (the HTTP error  *)
(* is caught and turned into False), list may fail (the error is raised).  *)
(***************************************************************************)
EXTENDS Integers, Sequences, FiniteSets, TLC

VARIABLES remote, files, inv

vars == <<remote, files, inv>>

\* ------------------------------------------------------------------ bounds

\* Longest "variables" array of an input file.
MaxLen == 2

\* Variable keys, in the order sorted() gives them.
KeyOrder == <<"A", "B">>

Keys == {KeyOrder[n] : n \in DOMAIN KeyOrder}

Projects == {"p1", "p2"}

Paths == {"f1", "f2"}

Invs == {1, 2}

\* ------------------------------------------------------------------ dicts

EmptyDict == [k \in {} |-> 0]

Get(d, f, default) == IF f \in DOMAIN d THEN d[f] ELSE default

\* Python truthiness of d.get(f) for a string field and for a boolean field.
TruthyStr(d, f) == f \in DOMAIN d /\ d[f] # ""

TruthyBool(d, f) == f \in DOMAIN d /\ d[f]

\* d.get(f) != e.get(f): a missing field reads None, which differs from
\* every string and boolean.
GetDiffers(d, e, f) ==
    \/ (f \in DOMAIN d) # (f \in DOMAIN e)
    \/ f \in DOMAIN d /\ f \in DOMAIN e /\ d[f] # e[f]

\* Mutant: the first entry of a key wins.
FirstIndex(vs, k) == CHOOSE i \in DOMAIN vs :
    vs[i].key = k /\ \A j \in DOMAIN vs : vs[j].key = k => i <= j

\* {v["key"]: v for v in vs}: the last entry of a key wins.
LastIndex(vs, k) == CHOOSE i \in DOMAIN vs :
    vs[i].key = k /\ \A j \in DOMAIN vs : vs[j].key = k => j <= i

KeyDict(vs) == [k \in {vs[i].key : i \in DOMAIN vs} |-> vs[LastIndex(vs, k)]]

\* sorted(S) for a set of keys.
SortedKeys(S) == SelectSeq(KeyOrder, LAMBDA k : k \in S)

\* ------------------------------------------------------------------ API payloads

\* Mutant: the POST body never marks the variable protected.
CreateDataUnprotected(variable) ==
    LET data == [key |-> variable.key,
                 value |-> Get(variable, "value", ""),
                 protected |-> FALSE,
                 masked |-> Get(variable, "masked", FALSE),
                 variable_type |-> Get(variable, "variable_type", "env_var")]
    IN  IF TruthyStr(variable, "description")
        THEN data @@ ("description" :> variable.description)
        ELSE data

\* Body of POST {api_url}: description only when the file gives a non-empty one.
CreateData(variable) ==
    LET data == [key |-> variable.key,
                 value |-> Get(variable, "value", ""),
                 protected |-> Get(variable, "protected", FALSE),
                 masked |-> Get(variable, "masked", FALSE),
                 variable_type |-> Get(variable, "variable_type", "env_var")]
    IN  IF TruthyStr(variable, "description")
        THEN data @@ ("description" :> variable.description)
        ELSE data

\* Mutant: the PUT body leaves the variable type at its default.
UpdateDataDefaultType(variable) ==
    [value |-> Get(variable, "value", ""),
     protected |-> Get(variable, "protected", FALSE),
     masked |-> Get(variable, "masked", FALSE),
     variable_type |-> "env_var"]

\* Body of PUT {api_url}/{key}: no key, no description.
UpdateData(variable) ==
    [value |-> Get(variable, "value", ""),
     protected |-> Get(variable, "protected", FALSE),
     masked |-> Get(variable, "masked", FALSE),
     variable_type |-> Get(variable, "variable_type", "env_var")]

\* The project's store after a successful POST / PUT / DELETE.
Posted(store, data) ==
    (data.key :> [key |-> data.key, value |-> data.value,
                  protected |-> data.protected, masked |-> data.masked,
                  variable_type |-> data.variable_type,
                  description |-> Get(data, "description", "")]) @@ store

Put(store, key, data) ==
    [store EXCEPT ![key] = [@ EXCEPT !.value = data.value,
                                     !.protected = data.protected,
                                     !.masked = data.masked,
                                     !.variable_type = data.variable_type]]

Deleted(store, key) == [k \in DOMAIN store \ {key} |-> store[k]]

\* ------------------------------------------------------------------ export

RedactionNotice == "Masked value not exported"

\* Mutant: the value is exported whatever the masked flag says.
ExportVarUnredacted(var, include_masked) ==
    [key |-> var.key,
     value |-> var.value,
     protected |-> Get(var, "protected", FALSE),
     masked |-> Get(var, "masked", FALSE),
     variable_type |-> Get(var, "variable_type", "env_var"),
     description |-> IF Get(var, "masked", FALSE) /\ ~include_masked
                     THEN RedactionNotice ELSE ""]

ExportVar(var, include_masked) ==
    [key |-> var.key,
     value |-> IF ~Get(var, "masked", FALSE) \/ include_masked
               THEN var.value ELSE "",
     protected |-> Get(var, "protected", FALSE),
     masked |-> Get(var, "masked", FALSE),
     variable_type |-> Get(var, "variable_type", "env_var"),
     description |-> IF Get(var, "masked", FALSE) /\ ~include_masked
                     THEN RedactionNotice ELSE ""]

\* ------------------------------------------------------------------ import

\* Mutant: the skip forgets "unless force".
ShouldSkipIgnoringForce(var, force) ==
    ~TruthyStr(var, "value") /\ TruthyBool(var, "masked")

\* Mutant: only an absent value is skipped, an empty one is sent.
ShouldSkipOnlyAbsent(var, force) ==
    "value" \notin DOMAIN var /\ TruthyBool(var, "masked") /\ ~force

\* "Skip if value is empty and it's a masked variable (unless force)".
ShouldSkip(var, force) ==
    ~TruthyStr(var, "value") /\ TruthyBool(var, "masked") /\ ~force

\* ------------------------------------------------------------------ diff

\* Mutant: the comparison takes the description in.
IsModifiedWithDescription(file_var, current_var) ==
    \/ GetDiffers(file_var, current_var, "value")
    \/ GetDiffers(file_var, current_var, "protected")
    \/ GetDiffers(file_var, current_var, "masked")
    \/ GetDiffers(file_var, current_var, "variable_type")
    \/ GetDiffers(file_var, current_var, "description")

IsModified(file_var, current_var) ==
    \/ GetDiffers(file_var, current_var, "value")
    \/ GetDiffers(file_var, current_var, "protected")
    \/ GetDiffers(file_var, current_var, "masked")
    \/ GetDiffers(file_var, current_var, "variable_type")

DiffAdded(file_vars, current_vars) ==
    SelectSeq(SortedKeys(DOMAIN file_vars \cup DOMAIN current_vars),
              LAMBDA key : key \in DOMAIN file_vars /\ key \notin DOMAIN current_vars)

\* Mutant: "removed" lists every live key.
DiffRemovedEveryLiveKey(file_vars, current_vars) ==
    SortedKeys(DOMAIN current_vars)

DiffRemoved(file_vars, current_vars) ==
    SelectSeq(SortedKeys(DOMAIN file_vars \cup DOMAIN current_vars),
              LAMBDA key : key \notin DOMAIN file_vars /\ key \in DOMAIN current_vars)

DiffModified(file_vars, current_vars) ==
    SelectSeq(SortedKeys(DOMAIN file_vars \cup DOMAIN current_vars),
              LAMBDA key : /\ key \in DOMAIN file_vars
                           /\ key \in DOMAIN current_vars
                           /\ IsModified(file_vars[key], current_vars[key]))

\* ------------------------------------------------------------------ files

\* A path that does not exist, one that is not JSON, and a JSON object.
MissingFile == [kind |-> "missing", hasVars |-> FALSE, variables |-> <<>>,
                metadata |-> <<>>]

GarbageFile == [kind |-> "garbage", hasVars |-> FALSE, variables |-> <<>>,
                metadata |-> <<>>]

JsonFile(hasVars, variables, metadata) ==
    [kind |-> "json", hasVars |-> hasVars, variables |-> variables,
     metadata |-> metadata]

\* data.get("variables", [])
VariablesOrEmpty(data) == IF data.hasVars THEN data.variables ELSE <<>>

\* ------------------------------------------------------------------ one invocation

\* The locals of one run of main(); exit_code -1 while it runs.  file_vars
\* and current_vars are those of diff_variables and import_variables,
\* push_file_vars and push_current_vars those of push_variables.
NewInv(pc, op, path, project, force, include_masked, creds) ==
    [pc |-> pc, op |-> op, path |-> path, project |-> project,
     arg_force |-> force, include_masked |-> include_masked, creds |-> creds,
     force |-> FALSE,
     data |-> MissingFile, import_vars |-> <<>>,
     file_vars |-> EmptyDict, current_vars |-> EmptyDict,
     push_file_vars |-> EmptyDict, push_current_vars |-> EmptyDict,
     variables |-> EmptyDict,
     i |-> 0, todo |-> {},
     created |-> 0, updated |-> 0, skipped |-> 0, failed |-> 0,
     summary |-> <<>>, report |-> <<>>,
     calls |-> <<>>, error |-> "none", exit_code |-> -1]

\* The number of requests the invocations have sent to the API so far.
Issued ==
    Cardinality(UNION {{<<q, n>> : n \in DOMAIN inv[q].calls} : q \in Invs})

\* A request: "at" is its position among all requests sent to the API.
Call(op, key, idx, ok) ==
    [op |-> op, key |-> key, idx |-> idx, ok |-> ok, at |-> Issued + 1]

\* sys.exit(1) after "Operation failed" (or after the credentials check).
Fatal(r, error) == [r EXCEPT !.pc = "done", !.error = error, !.exit_code = 1]

\* main() returns: the process exits with code 0.
Returned(r) == [r EXCEPT !.pc = "done", !.exit_code = 0]

\* open() + json.load() of the input file: the parsed object, or the error.
LoadError(f) ==
    IF f.kind = "missing" THEN "file"
    ELSE IF f.kind = "garbage" THEN "json" ELSE "none"

\* An invocation is launched at once, or after the ones before it ended.
Startable(p) ==
    \/ inv[p].pc = "main"
    \/ inv[p].pc = "wait" /\ \A q \in Invs : q < p => inv[q].pc = "done"

\* main(): the credentials check, then the dispatch on the operation.
Main(p) ==
    /\ Startable(p)
    /\ inv' = [inv EXCEPT ![p] =
         IF ~inv[p].creds THEN Fatal(@, "config")
         ELSE [@ EXCEPT !.pc = CASE inv[p].op = "export" -> "export_fetch"
                                 [] inv[p].op = "import" -> "import_load"
                                 [] inv[p].op = "diff" -> "diff_load"
                                 [] OTHER -> "push_load",
                        !.force = inv[p].arg_force]]
    /\ UNCHANGED <<remote, files>>

\* get_all_variables(): the list call, which raises on an HTTP error.
ListCall(r, ok) == [r EXCEPT !.calls = Append(@, Call("list", "", 0, ok))]

\* ---- export_variables

ExportFetch(p) ==
    /\ inv[p].pc = "export_fetch"
    /\ \E ok \in BOOLEAN :
         inv' = [inv EXCEPT ![p] =
           IF ok THEN [ListCall(@, TRUE) EXCEPT
                         !.variables = remote[inv[p].project],
                         !.pc = "export_write"]
           ELSE Fatal(ListCall(@, FALSE), "transport")]
    /\ UNCHANGED <<remote, files>>

ExportData(project_id, variables, include_masked) ==
    JsonFile(TRUE,
             [n \in 1..Len(SortedKeys(DOMAIN variables)) |->
                ExportVar(variables[SortedKeys(DOMAIN variables)[n]], include_masked)],
             <<[project_id |-> project_id,
                total_variables |-> Cardinality(DOMAIN variables)]>>)

ExportWrite(p) ==
    /\ inv[p].pc = "export_write"
    /\ files' = [files EXCEPT ![inv[p].path] =
                   ExportData(inv[p].project, inv[p].variables, inv[p].include_masked)]
    /\ inv' = [inv EXCEPT ![p] = Returned(@)]
    /\ UNCHANGED remote

\* ---- import_variables

ImportLoad(p) ==
    /\ inv[p].pc = "import_load"
    /\ LET f == files[inv[p].path] IN
       inv' = [inv EXCEPT ![p] =
         IF LoadError(f) # "none" THEN Fatal(@, LoadError(f))
         ELSE IF ~f.hasVars THEN Fatal([@ EXCEPT !.data = f], "format")
         ELSE [@ EXCEPT !.data = f, !.import_vars = f.variables,
                        !.pc = "import_fetch"]]
    /\ UNCHANGED <<remote, files>>

ImportFetch(p) ==
    /\ inv[p].pc = "import_fetch"
    /\ \E ok \in BOOLEAN :
         inv' = [inv EXCEPT ![p] =
           IF ok THEN [ListCall(@, TRUE) EXCEPT
                         !.current_vars = remote[inv[p].project],
                         !.created = 0, !.updated = 0, !.skipped = 0, !.failed = 0,
                         !.i = 1, !.pc = "import_loop"]
           ELSE Fatal(ListCall(@, FALSE), "transport")]
    /\ UNCHANGED <<remote, files>>

\* update_variable(var): PUT; False on an HTTP error (404 when the key is gone).
UpdateVariable(p, var, ok) ==
    /\ ok => var.key \in DOMAIN remote[inv[p].project]
    /\ remote' = IF ok
                 THEN [remote EXCEPT ![inv[p].project] = Put(@, var.key, UpdateData(var))]
                 ELSE remote
    /\ inv' = [inv EXCEPT ![p] =
         [@ EXCEPT !.calls = Append(@, Call("update", var.key, inv[p].i, ok)),
                   !.updated = IF ok THEN @ + 1 ELSE @,
                   !.failed = IF ok THEN @ ELSE @ + 1,
                   !.i = @ + 1]]

\* Mutant: create_variable lets the HTTP error propagate to main().
CreateVariableRaising(p, var, ok) ==
    /\ ok => var.key \notin DOMAIN remote[inv[p].project]
    /\ remote' = IF ok
                 THEN [remote EXCEPT ![inv[p].project] = Posted(@, CreateData(var))]
                 ELSE remote
    /\ inv' = [inv EXCEPT ![p] =
         IF ok
         THEN [@ EXCEPT !.calls = Append(@, Call("create", var.key, inv[p].i, ok)),
                        !.created = @ + 1, !.i = @ + 1]
         ELSE Fatal([@ EXCEPT !.calls =
                       Append(@, Call("create", var.key, inv[p].i, ok))],
                    "transport")]

\* create_variable(var): POST; False on an HTTP error (400 when the key exists).
CreateVariable(p, var, ok) ==
    /\ ok => var.key \notin DOMAIN remote[inv[p].project]
    /\ remote' = IF ok
                 THEN [remote EXCEPT ![inv[p].project] = Posted(@, CreateData(var))]
                 ELSE remote
    /\ inv' = [inv EXCEPT ![p] =
         [@ EXCEPT !.calls = Append(@, Call("create", var.key, inv[p].i, ok)),
                   !.created = IF ok THEN @ + 1 ELSE @,
                   !.failed = IF ok THEN @ ELSE @ + 1,
                   !.i = @ + 1]]

\* Mutant: the loop looks the key up in the live store, not in current_vars.
ImportStepLiveLookup(p) ==
    /\ inv[p].pc = "import_loop"
    /\ inv[p].i <= Len(inv[p].import_vars)
    /\ LET var == inv[p].import_vars[inv[p].i] IN
       IF ShouldSkip(var, inv[p].force)
       THEN /\ inv' = [inv EXCEPT ![p] = [@ EXCEPT !.skipped = @ + 1, !.i = @ + 1]]
            /\ UNCHANGED remote
       ELSE IF var.key \in DOMAIN remote[inv[p].project]
       THEN \E ok \in BOOLEAN : UpdateVariable(p, var, ok)
       ELSE \E ok \in BOOLEAN : CreateVariable(p, var, ok)
    /\ UNCHANGED files

\* One iteration of "for var in import_vars".
ImportStep(p) ==
    /\ inv[p].pc = "import_loop"
    /\ inv[p].i <= Len(inv[p].import_vars)
    /\ LET var == inv[p].import_vars[inv[p].i] IN
       IF ShouldSkip(var, inv[p].force)
       THEN /\ inv' = [inv EXCEPT ![p] = [@ EXCEPT !.skipped = @ + 1, !.i = @ + 1]]
            /\ UNCHANGED remote
       ELSE IF var.key \in DOMAIN inv[p].current_vars
       THEN \E ok \in BOOLEAN : UpdateVariable(p, var, ok)
       ELSE \E ok \in BOOLEAN : CreateVariable(p, var, ok)
    /\ UNCHANGED files

\* "Import complete: %d created, %d updated, %d skipped, %d failed".
ImportSummary(p) ==
    /\ inv[p].pc = "import_loop"
    /\ inv[p].i > Len(inv[p].import_vars)
    /\ inv' = [inv EXCEPT ![p] =
         Returned([@ EXCEPT !.summary =
           <<[created |-> inv[p].created, updated |-> inv[p].updated,
              skipped |-> inv[p].skipped, failed |-> inv[p].failed]>>])]
    /\ UNCHANGED <<remote, files>>

\* ---- diff_variables

DiffLoad(p) ==
    /\ inv[p].pc = "diff_load"
    /\ LET f == files[inv[p].path] IN
       inv' = [inv EXCEPT ![p] =
         IF LoadError(f) # "none" THEN Fatal(@, LoadError(f))
         ELSE [@ EXCEPT !.data = f, !.file_vars = KeyDict(VariablesOrEmpty(f)),
                        !.pc = "diff_fetch"]]
    /\ UNCHANGED <<remote, files>>

DiffReport(file_vars, current_vars) ==
    [added |-> DiffAdded(file_vars, current_vars),
     removed |-> DiffRemoved(file_vars, current_vars),
     modified |-> DiffModified(file_vars, current_vars)]

\* Mutant: diff applies the removals it reports.
DiffFetchApplying(p) ==
    /\ inv[p].pc = "diff_fetch"
    /\ inv' = [inv EXCEPT ![p] =
         Returned([ListCall(@, TRUE) EXCEPT
           !.current_vars = remote[inv[p].project],
           !.report = <<DiffReport(inv[p].file_vars, remote[inv[p].project])>>])]
    /\ remote' = [remote EXCEPT ![inv[p].project] =
         [k \in DOMAIN @ \cap DOMAIN inv[p].file_vars |-> @[k]]]
    /\ UNCHANGED files

DiffFetch(p) ==
    /\ inv[p].pc = "diff_fetch"
    /\ \E ok \in BOOLEAN :
         inv' = [inv EXCEPT ![p] =
           IF ok THEN Returned([ListCall(@, TRUE) EXCEPT
                         !.current_vars = remote[inv[p].project],
                         !.report = <<DiffReport(inv[p].file_vars,
                                                 remote[inv[p].project])>>])
           ELSE Fatal(ListCall(@, FALSE), "transport")]
    /\ UNCHANGED <<remote, files>>

\* ---- push_variables

PushLoad(p) ==
    /\ inv[p].pc = "push_load"
    /\ LET f == files[inv[p].path] IN
       inv' = [inv EXCEPT ![p] =
         IF LoadError(f) # "none" THEN Fatal(@, LoadError(f))
         ELSE [@ EXCEPT !.data = f, !.push_file_vars = KeyDict(VariablesOrEmpty(f)),
                        !.pc = "push_fetch"]]
    /\ UNCHANGED <<remote, files>>

\* Mutant: the delete loop forgets "if key not in file_vars".
ToDeleteEveryLiveKey(file_vars, current_vars) == DOMAIN current_vars

\* The keys the delete loop calls delete for.
ToDelete(file_vars, current_vars) ==
    {key \in DOMAIN current_vars : key \notin DOMAIN file_vars}

PushFetch(p) ==
    /\ inv[p].pc = "push_fetch"
    /\ \E ok \in BOOLEAN :
         inv' = [inv EXCEPT ![p] =
           IF ok THEN [ListCall(@, TRUE) EXCEPT
                         !.push_current_vars = remote[inv[p].project],
                         !.todo = ToDelete(inv[p].push_file_vars, remote[inv[p].project]),
                         !.pc = "push_delete"]
           ELSE Fatal(ListCall(@, FALSE), "transport")]
    /\ UNCHANGED <<remote, files>>

\* delete_variable(key): DELETE; False on an HTTP error, which push ignores.
DeleteVariable(p, key, ok) ==
    /\ ok => key \in DOMAIN remote[inv[p].project]
    /\ remote' = IF ok
                 THEN [remote EXCEPT ![inv[p].project] = Deleted(@, key)]
                 ELSE remote
    /\ inv' = [inv EXCEPT ![p] =
         [@ EXCEPT !.calls = Append(@, Call("delete", key, 0, ok)),
                   !.todo = @ \ {key}]]

\* One deleting iteration of "for key in current_vars", in the order of the
\* list response.
PushDelete(p) ==
    /\ inv[p].pc = "push_delete"
    /\ \E key \in inv[p].todo : \E ok \in BOOLEAN : DeleteVariable(p, key, ok)
    /\ UNCHANGED files

\* self.import_variables(input_file, force=True)
PushImport(p) ==
    /\ inv[p].pc = "push_delete"
    /\ inv[p].todo = {}
    /\ inv' = [inv EXCEPT ![p] = [@ EXCEPT !.force = TRUE, !.pc = "import_load"]]
    /\ UNCHANGED <<remote, files>>

Next ==
    \E p \in Invs :
        \/ Main(p)
        \/ ExportFetch(p)
        \/ ExportWrite(p)
        \/ ImportLoad(p)
        \/ ImportFetch(p)
        \/ ImportStep(p)
        \/ ImportSummary(p)
        \/ DiffLoad(p)
        \/ DiffFetch(p)
        \/ PushLoad(p)
        \/ PushFetch(p)
        \/ PushDelete(p)
        \/ PushImport(p)

\* ------------------------------------------------------------------ inputs

\* S, and S with the optional field f set to each value of Vals.
WithOptional(S, f, Vals) == S \cup {e @@ (f :> v) : e \in S, v \in Vals}

\* Entries of a file's "variables" array: only "key" is always there.
FileEntries(K, V, M, P, T, D) ==
    WithOptional(WithOptional(WithOptional(WithOptional(WithOptional(
        [key : K], "value", V), "masked", M), "protected", P),
        "variable_type", T), "description", D)

SeqsUpTo(S, n) == UNION {[1..m -> S] : m \in 0..n}

\* The input files: absent, not JSON, JSON without "variables", or JSON with
\* an array of entries.
InputFiles(E) ==
    {MissingFile, GarbageFile, JsonFile(FALSE, <<>>, <<>>)}
        \cup {JsonFile(TRUE, vs, <<>>) : vs \in SeqsUpTo(E, MaxLen)}

\* Entries that declare every field.
FullEntries(K, V, M, P, T, D) ==
    [key : K, value : V, masked : M, protected : P, variable_type : T,
     description : D]

\* The stores of a project: any subset of the keys, one variable of R per
\* key.  GET {api_url} returns every field of a variable.
Stores(R) ==
    UNION {{st \in [K -> R] : \A k \in K : st[k].key = k} : K \in SUBSET Keys}

\* Entries that leave fields out, down to the bare key; a complete entry for
\* a plain variable; a complete entry for a masked, protected file variable.
SpecEntries ==
    FileEntries(Keys, {""}, {TRUE}, {}, {}, {})
        \cup FullEntries(Keys, {"s"}, {FALSE}, {FALSE}, {"env_var"}, {""})
        \cup FullEntries(Keys, {"n"}, {TRUE}, {TRUE}, {"file"}, {"new"})

\* Remote variables: plain or masked, with a value and a description.
SpecRemoteVars ==
    FullEntries(Keys, {"s"}, BOOLEAN, {FALSE}, {"env_var"}, {"old"})

Off == NewInv("off", "diff", "f1", "p1", FALSE, FALSE, TRUE)

\* The command lines: --force counts for import only, --include-masked for
\* export only.
CommandLines ==
    {c \in [op : {"export", "import", "diff", "push"}, force : BOOLEAN,
            include_masked : BOOLEAN, creds : BOOLEAN] :
        /\ c.force => c.op = "import"
        /\ c.include_masked => c.op = "export"}

\* One invocation on project p1 and file f1.
Init ==
    /\ \E st \in Stores(SpecRemoteVars) :
         remote = [p \in Projects |-> IF p = "p1" THEN st ELSE EmptyDict]
    /\ \E f \in InputFiles(SpecEntries) :
         files = [q \in Paths |-> IF q = "f1" THEN f ELSE MissingFile]
    /\ \E c \in CommandLines :
         inv = [p \in Invs |->
                  IF p = 1
                  THEN NewInv("main", c.op, "f1", "p1", c.force, c.include_masked, c.creds)
                  ELSE Off]

Spec == Init /\ [][Next]_vars

\* Remote variables of every shape: plain or file, protected or not, masked
\* (then with a value) or not.
RoundTripRemoteVars ==
    {v \in FullEntries(Keys, {"", "s"}, BOOLEAN, BOOLEAN, {"env_var", "file"}, {"old"}) :
        v.masked => v.value # ""}

\* An export of project p1 to f1, then an import of f1 into p1 or into the
\* empty project p2.
InitRoundTrip ==
    /\ \E st \in Stores(RoundTripRemoteVars) :
         remote = [p \in Projects |-> IF p = "p1" THEN st ELSE EmptyDict]
    /\ files = [q \in Paths |-> MissingFile]
    /\ \E include_masked, force \in BOOLEAN : \E target \in Projects :
         inv = [p \in Invs |->
                  IF p = 1
                  THEN NewInv("main", "export", "f1", "p1", FALSE, include_masked, TRUE)
                  ELSE NewInv("wait", "import", "f1", target, force, FALSE, TRUE)]

NextRoundTrip ==
    \E p \in Invs :
        \/ Main(p)
        \/ ExportFetch(p)
        \/ ExportWrite(p)
        \/ ImportLoad(p)
        \/ ImportFetch(p)
        \/ ImportStep(p)
        \/ ImportSummary(p)

SpecRoundTrip == InitRoundTrip /\ [][NextRoundTrip]_vars

\* A push of f1 to project p1, then a diff of the same file against p1.
InitPushDiff ==
    /\ \E st \in Stores(SpecRemoteVars) :
         remote = [p \in Projects |-> IF p = "p1" THEN st ELSE EmptyDict]
    /\ \E vs \in SeqsUpTo(SpecEntries, MaxLen) :
         files = [q \in Paths |->
                    IF q = "f1" THEN JsonFile(TRUE, vs, <<>>) ELSE MissingFile]
    /\ inv = [p \in Invs |->
                IF p = 1
                THEN NewInv("main", "push", "f1", "p1", FALSE, FALSE, TRUE)
                ELSE NewInv("wait", "diff", "f1", "p1", FALSE, FALSE, TRUE)]

NextPushDiff ==
    \E p \in Invs :
        \/ Main(p)
        \/ PushLoad(p)
        \/ PushFetch(p)
        \/ PushDelete(p)
        \/ PushImport(p)
        \/ ImportLoad(p)
        \/ ImportFetch(p)
        \/ ImportStep(p)
        \/ ImportSummary(p)
        \/ DiffLoad(p)
        \/ DiffFetch(p)

SpecPushDiff == InitPushDiff /\ [][NextPushDiff]_vars

\* What the two concurrent invocations declare: f1 gives every key the value
\* "x", f2 the value "y".
ConcurrentEntries(value) ==
    FullEntries(Keys, {value}, {FALSE}, {FALSE}, {"env_var"}, {""})

ConcurrentRemoteVars ==
    FullEntries(Keys, {"s"}, {FALSE}, {FALSE}, {"env_var"}, {"old"})

\* The files that declare no key twice.
DistinctKeys(E) ==
    {vs \in SeqsUpTo(E, MaxLen) :
        \A m, n \in DOMAIN vs : vs[m].key = vs[n].key => m = n}

\* Two invocations, each an import or a push, launched together on project
\* p1: invocation 1 with file f1, invocation 2 with file f2.
InitConcurrent ==
    /\ \E st \in Stores(ConcurrentRemoteVars) :
         remote = [p \in Projects |-> IF p = "p1" THEN st ELSE EmptyDict]
    /\ \E v1 \in DistinctKeys(ConcurrentEntries("x")) :
       \E v2 \in DistinctKeys(ConcurrentEntries("y")) :
         files = [q \in Paths |->
                    JsonFile(TRUE, IF q = "f1" THEN v1 ELSE v2, <<>>)]
    /\ \E op1, op2 \in {"import", "push"} :
         inv = [p \in Invs |->
                  IF p = 1
                  THEN NewInv("main", op1, "f1", "p1", FALSE, FALSE, TRUE)
                  ELSE NewInv("main", op2, "f2", "p1", FALSE, FALSE, TRUE)]

NextConcurrent ==
    \E p \in Invs :
        \/ Main(p)
        \/ ImportLoad(p)
        \/ ImportFetch(p)
        \/ ImportStep(p)
        \/ ImportSummary(p)
        \/ PushLoad(p)
        \/ PushFetch(p)
        \/ PushDelete(p)
        \/ PushImport(p)

SpecConcurrent == InitConcurrent /\ [][NextConcurrent]_vars

\* ------------------------------------------------------------------ properties

Range(seq) == {seq[n] : n \in DOMAIN seq}

IsMutation(c) == c.op \in {"create", "update", "delete"}

\* The create/update/delete calls of an invocation that failed.
FailedCalls(p) ==
    {n \in DOMAIN inv[p].calls : IsMutation(inv[p].calls[n]) /\ ~inv[p].calls[n].ok}

\* The operation returned to main() without an exception.
ReturnedOk(p) == inv[p].pc = "done" /\ inv[p].exit_code = 0

\* The input file's entries, and the entry that counts for a key.
FileVariables(p) == VariablesOrEmpty(files[inv[p].path])

FileKeys(p) == {FileVariables(p)[n].key : n \in DOMAIN FileVariables(p)}

Declared(p, k) ==
    FileVariables(p)[CHOOSE n \in DOMAIN FileVariables(p) :
        /\ FileVariables(p)[n].key = k
        /\ \A m \in DOMAIN FileVariables(p) : FileVariables(p)[m].key = k => m <= n]

\* A field as the file declares it, a field left out counting as the default
\* the API bodies give it.
SameCoreFields(v, e) ==
    /\ v.value = (IF "value" \in DOMAIN e THEN e.value ELSE "")
    /\ v.protected = (IF "protected" \in DOMAIN e THEN e.protected ELSE FALSE)
    /\ v.masked = (IF "masked" \in DOMAIN e THEN e.masked ELSE FALSE)
    /\ v.variable_type =
         (IF "variable_type" \in DOMAIN e THEN e.variable_type ELSE "env_var")

SameDescription(v, e) ==
    "description" \in DOMAIN e => v.description = e.description

\* C1 as the spec states it: after a push in which no create/update/delete
\* call failed, the remote key set is the file's key set and every field of
\* every remote variable, description included, is the one the file declares.
C1_PushConvergesAllFields ==
    \A p \in Invs :
        (inv[p].op = "push" /\ ReturnedOk(p) /\ FailedCalls(p) = {}) =>
            /\ DOMAIN remote[inv[p].project] = FileKeys(p)
            /\ \A k \in FileKeys(p) :
                 /\ SameCoreFields(remote[inv[p].project][k], Declared(p, k))
                 /\ SameDescription(remote[inv[p].project][k], Declared(p, k))

\* C1 amended: after a push in which no create/update/delete call failed, the
\* remote key set is the file's key set and every remote variable's value,
\* protected, masked and variable_type are the ones the file declares for its
\* key (the description of an updated variable is not sent).
C1_PushConverges ==
    \A p \in Invs :
        (inv[p].op = "push" /\ ReturnedOk(p) /\ FailedCalls(p) = {}) =>
            /\ DOMAIN remote[inv[p].project] = FileKeys(p)
            /\ \A k \in FileKeys(p) :
                 SameCoreFields(remote[inv[p].project][k], Declared(p, k))

\* A push that deleted one key and updated another, with no failure.
C1_Witness ==
    \E p \in Invs :
        /\ inv[p].op = "push" /\ ReturnedOk(p) /\ FailedCalls(p) = {}
        /\ \E n, m \in DOMAIN inv[p].calls :
             /\ inv[p].calls[n].op = "delete"
             /\ inv[p].calls[m].op = "update"
             /\ inv[p].current_vars[inv[p].calls[m].key].value
                  # remote[inv[p].project][inv[p].calls[m].key].value

\* C2: diff reports added = F - R, removed = R - F and modified within
\* F \cap R, for F the file's keys and R the remote keys, and no key is in
\* two of the three lists.
C2_DiffSets ==
    \A p \in Invs :
        (inv[p].op = "diff" /\ inv[p].report # <<>>) =>
            LET F == FileKeys(p)
                R == DOMAIN remote[inv[p].project]
                added == Range(inv[p].report[1].added)
                removed == Range(inv[p].report[1].removed)
                modified == Range(inv[p].report[1].modified)
            IN  /\ added = F \ R
                /\ removed = R \ F
                /\ modified \subseteq F \cap R
                /\ added \cap removed = {}
                /\ added \cap modified = {}
                /\ removed \cap modified = {}

\* A diff that reports a key of each kind it can with two keys: one added,
\* one removed.
C2_Witness ==
    \E p \in Invs :
        /\ inv[p].op = "diff" /\ inv[p].report # <<>>
        /\ inv[p].report[1].added # <<>>
        /\ inv[p].report[1].removed # <<>>

\* A file entry that is masked with an empty or absent value.
MaskedEmpty(e) ==
    /\ "masked" \in DOMAIN e /\ e.masked = TRUE
    /\ "value" \in DOMAIN e => e.value = ""

\* The create/update calls sent for entry n of the file.
CallsForEntry(p, n) ==
    {c \in Range(inv[p].calls) : c.idx = n /\ c.op \in {"create", "update"}}

\* C3: an import without --force never sends a create or update for a file
\* entry that is masked with an empty or absent value; an import with --force
\* that runs to its summary has sent one for every such entry.
C3_SkipUnlessForced ==
    \A p \in Invs :
        inv[p].op = "import" =>
            \A n \in DOMAIN inv[p].import_vars :
                MaskedEmpty(inv[p].import_vars[n]) =>
                    /\ ~inv[p].arg_force => CallsForEntry(p, n) = {}
                    /\ (inv[p].arg_force /\ inv[p].summary # <<>>) =>
                         CallsForEntry(p, n) # {}

\* A forced import that sent a call for a masked entry with no value.
C3_Witness ==
    \E p \in Invs :
        /\ inv[p].op = "import" /\ inv[p].arg_force /\ inv[p].summary # <<>>
        /\ \E n \in DOMAIN inv[p].import_vars :
             /\ MaskedEmpty(inv[p].import_vars[n])
             /\ CallsForEntry(p, n) # {}

\* The entries of the exported file for a key.
Exported(p, k) ==
    {e \in Range(files[inv[p].path].variables) : e.key = k}

\* C4: for every masked remote variable, an export without --include-masked
\* writes an empty value and the redaction notice as description, and an
\* export with --include-masked writes the live value.
C4_ExportRedacts ==
    \A p \in Invs :
        (inv[p].op = "export" /\ ReturnedOk(p)) =>
            \A k \in DOMAIN remote[inv[p].project] :
                remote[inv[p].project][k].masked =>
                    /\ Exported(p, k) # {}
                    /\ \A e \in Exported(p, k) :
                         IF inv[p].include_masked
                         THEN e.value = remote[inv[p].project][k].value
                         ELSE /\ e.value = ""
                              /\ e.description = "Masked value not exported"

\* An export without --include-masked of a project with a masked variable.
C4_Witness ==
    \E p \in Invs :
        /\ inv[p].op = "export" /\ ReturnedOk(p) /\ ~inv[p].include_masked
        /\ \E k \in DOMAIN remote[inv[p].project] :
             /\ remote[inv[p].project][k].masked
             /\ remote[inv[p].project][k].value # ""

\* C5: when every variable of p1 is unmasked, exporting p1 and importing the
\* file into the empty project p2, with no failed call, leaves p2 with one
\* variable per key of p1, equal in key, value, protected, masked and
\* variable_type.
C5_RoundTrip ==
    (/\ inv[1].op = "export" /\ ReturnedOk(1) /\ inv[1].project = "p1"
     /\ inv[2].op = "import" /\ ReturnedOk(2) /\ inv[2].project = "p2"
     /\ FailedCalls(2) = {}
     /\ \A k \in DOMAIN remote["p1"] : ~remote["p1"][k].masked) =>
        /\ DOMAIN remote["p2"] = DOMAIN remote["p1"]
        /\ \A k \in DOMAIN remote["p1"] :
             /\ remote["p2"][k].key = remote["p1"][k].key
             /\ remote["p2"][k].value = remote["p1"][k].value
             /\ remote["p2"][k].protected = remote["p1"][k].protected
             /\ remote["p2"][k].masked = remote["p1"][k].masked
             /\ remote["p2"][k].variable_type = remote["p1"][k].variable_type

\* A round trip of two unmasked variables, one of them a protected file
\* variable, into the empty project.
C5_Witness ==
    /\ inv[1].op = "export" /\ ReturnedOk(1)
    /\ inv[2].op = "import" /\ ReturnedOk(2) /\ inv[2].project = "p2"
    /\ FailedCalls(2) = {}
    /\ DOMAIN remote["p1"] = Keys
    /\ \A k \in Keys : ~remote["p1"][k].masked
    /\ \E k \in Keys : remote["p1"][k].protected /\ remote["p1"][k].variable_type = "file"
    /\ Cardinality({n \in DOMAIN inv[2].calls : inv[2].calls[n].op = "create"}) = 2

\* C6: no step of a diff changes the remote variables or the file, and a diff
\* issues no call other than one list.
C6_DiffPure ==
    [][\A p \in Invs :
         (inv[p].op = "diff" /\ inv'[p] # inv[p]) =>
             /\ remote' = remote
             /\ files' = files
             /\ Len(inv'[p].calls) <= 1
             /\ \A c \in Range(inv'[p].calls) : c.op = "list"]_vars

\* A diff that printed a report with a removed key after its one list call.
C6_Witness ==
    \E p \in Invs :
        /\ inv[p].op = "diff" /\ ReturnedOk(p) /\ inv[p].report # <<>>
        /\ inv[p].report[1].removed # <<>>
        /\ Len(inv[p].calls) = 1
        /\ DOMAIN remote[inv[p].project] = DOMAIN inv[p].current_vars

\* C7 as the spec states it: when an operation ends on a file that is not
\* JSON or has no "variables" key, it has issued no create, update or delete.
C7_FormatErrorBeforeMutation ==
    \A p \in Invs :
        inv[p].error \in {"json", "format"} =>
            \A c \in Range(inv[p].calls) : ~IsMutation(c)

\* The structural failures: URL or token unset, or an input file that is
\* missing, not JSON, or without the "variables" key.
StructuralFailure(p) ==
    \/ ~inv[p].creds
    \/ /\ inv[p].op \in {"import", "diff", "push"}
       /\ \/ files[inv[p].path].kind # "json"
          \/ ~files[inv[p].path].hasVars

\* C8 as the spec states it: an operation that meets a structural failure
\* ends with exit code 1, without a report or a summary.
C8_StructuralFailureFatal ==
    \A p \in Invs :
        (inv[p].pc = "done" /\ StructuralFailure(p)) =>
            /\ inv[p].exit_code = 1
            /\ inv[p].report = <<>>
            /\ inv[p].summary = <<>>

\* The entries the import loop has dealt with: skipped, or sent.
Tallied(r) == r.created + r.updated + r.skipped + r.failed

\* C9: a failed create, update or delete never ends the operation: the only
\* fatal errors of an import or push are the credentials, the file and a
\* failed list; without one of those the operation deals with every file
\* entry, calls delete for every live key absent from the file, logs its
\* summary and exits with code 0.
C9_ItemFailuresNotFatal ==
    \A p \in Invs :
        inv[p].op \in {"import", "push"} =>
            /\ inv[p].error = "transport" =>
                 /\ inv[p].calls # <<>>
                 /\ inv[p].calls[Len(inv[p].calls)].op = "list"
            /\ (inv[p].pc = "done" /\ inv[p].error = "none") =>
                 /\ inv[p].exit_code = 0
                 /\ inv[p].summary # <<>>
                 /\ Tallied(inv[p].summary[1]) = Len(inv[p].import_vars)
                 /\ inv[p].import_vars = FileVariables(p)
                 /\ \A n \in DOMAIN inv[p].import_vars :
                      CallsForEntry(p, n) # {} \/
                        (MaskedEmpty(inv[p].import_vars[n]) /\ ~inv[p].force)
                 /\ inv[p].op = "push" =>
                      \A k \in DOMAIN inv[p].push_current_vars \ FileKeys(p) :
                          \E c \in Range(inv[p].calls) : c.op = "delete" /\ c.key = k

\* A push that went on to its summary and exit code 0 after a failed delete
\* and a failed create, sending a further call after each.
C9_Witness ==
    \E p \in Invs :
        /\ inv[p].op = "push" /\ ReturnedOk(p) /\ inv[p].summary # <<>>
        /\ \E n, m \in DOMAIN inv[p].calls :
             /\ n < m /\ m < Len(inv[p].calls)
             /\ inv[p].calls[n].op = "delete" /\ ~inv[p].calls[n].ok
             /\ inv[p].calls[m].op = "create" /\ ~inv[p].calls[m].ok

\* C10 as the spec states it: the failed count of the summary is the number
\* of create, update and delete calls of the operation that failed.
C10_FailedCountsEveryCall ==
    \A p \in Invs :
        inv[p].summary # <<>> =>
            inv[p].summary[1].failed = Cardinality(FailedCalls(p))

\* The keys an invocation has called delete for, and its calls in order.
DeletedKeys(p) == {c.key : c \in {d \in Range(inv[p].calls) : d.op = "delete"}}

\* The push is past its delete loop.
PastDeleteLoop(p) ==
    inv[p].op = "push" /\ inv[p].pc \notin {"main", "push_load", "push_fetch", "push_delete"}

\* C12: push calls delete only for keys of the live set it fetched that the
\* file does not declare, once each; when its delete loop is over it has
\* called delete for every such key; and no delete call follows a create or
\* update call.
C12_DeletePhaseExactAndFirst ==
    \A p \in Invs :
        inv[p].op = "push" =>
            /\ DeletedKeys(p) \subseteq DOMAIN inv[p].push_current_vars \ FileKeys(p)
            /\ \A n, m \in DOMAIN inv[p].calls :
                 (inv[p].calls[n].op = "delete" /\ inv[p].calls[m].op = "delete"
                    /\ inv[p].calls[n].key = inv[p].calls[m].key) => n = m
            /\ PastDeleteLoop(p) =>
                 DeletedKeys(p) = DOMAIN inv[p].push_current_vars \ FileKeys(p)
            /\ \A n, m \in DOMAIN inv[p].calls :
                 (inv[p].calls[n].op = "delete"
                    /\ inv[p].calls[m].op \in {"create", "update"}) => n < m

\* A finished push that deleted the live key the file leaves out, kept the
\* one it declares and then updated it.
C12_Witness ==
    \E p \in Invs :
        /\ inv[p].op = "push" /\ ReturnedOk(p)
        /\ DOMAIN inv[p].push_current_vars = Keys
        /\ Cardinality(DeletedKeys(p)) = 1
        /\ \E c \in Range(inv[p].calls) : c.op = "update" /\ c.key \notin DeletedKeys(p)

\* The entries of the import loop that are not skipped.
Skipped(p, n) == MaskedEmpty(inv[p].import_vars[n]) /\ ~inv[p].force

\* The keys an invocation has created.
CreatedKeys(p) ==
    {c.key : c \in {d \in Range(inv[p].calls) : d.op = "create" /\ d.ok}}

\* C13: an import fetches the live set once; every entry it has dealt with
\* got no call when skipped and otherwise exactly one call, an update when
\* its key is in the fetched set and a create when it is not (even when the
\* key has been created since); and the calls follow the file's order.
C13_UpdateOrCreateBySnapshot ==
    \A p \in Invs :
        inv[p].i >= 1 =>
            /\ inv[p].op = "import" =>
                 /\ Cardinality({n \in DOMAIN inv[p].calls :
                                   inv[p].calls[n].op = "list"}) = 1
                 /\ DOMAIN inv[p].current_vars =
                      DOMAIN remote[inv[p].project] \ CreatedKeys(p)
            /\ \A n \in DOMAIN inv[p].import_vars :
                 LET sent == {m \in DOMAIN inv[p].calls : inv[p].calls[m].idx = n}
                 IN  IF n >= inv[p].i \/ Skipped(p, n)
                     THEN sent = {}
                     ELSE /\ Cardinality(sent) = 1
                          /\ \A m \in sent :
                               /\ inv[p].calls[m].key = inv[p].import_vars[n].key
                               /\ inv[p].calls[m].op =
                                    IF inv[p].import_vars[n].key
                                         \in DOMAIN inv[p].current_vars
                                    THEN "update" ELSE "create"
            /\ \A m1, m2 \in DOMAIN inv[p].calls :
                 (m1 < m2 /\ inv[p].calls[m1].idx > 0) =>
                     inv[p].calls[m1].idx < inv[p].calls[m2].idx

\* An import of a file that declares B before A: B, not in the live set, is
\* created first, then A is updated.
C13_Witness ==
    \E p \in Invs :
        /\ inv[p].op = "import" /\ ReturnedOk(p)
        /\ Len(inv[p].import_vars) = 2
        /\ inv[p].import_vars[1].key = "B" /\ inv[p].import_vars[2].key = "A"
        /\ \E m1, m2 \in DOMAIN inv[p].calls :
             /\ m1 < m2
             /\ inv[p].calls[m1].op = "create" /\ inv[p].calls[m1].key = "B"
             /\ inv[p].calls[m2].op = "update" /\ inv[p].calls[m2].key = "A"

\* A field of a file entry differs from the remote variable's: the entry
\* leaves it out, or gives another value.
FieldDiffers(e, v, f) == f \notin DOMAIN e \/ e[f] # v[f]

\* Position of a key in sorted order, and a list of keys in sorted order.
KeyPos(k) == CHOOSE n \in DOMAIN KeyOrder : KeyOrder[n] = k

InKeyOrder(seq) ==
    \A n, m \in DOMAIN seq : n < m => KeyPos(seq[n]) < KeyPos(seq[m])

\* C14: diff reports as modified exactly the keys of both sides whose file
\* entry differs from the remote variable in value, protected, masked or
\* variable_type (the description does not count), and each of its three
\* lists is in sorted key order.
C14_ModifiedExact ==
    \A p \in Invs :
        (inv[p].op = "diff" /\ inv[p].report # <<>>) =>
            /\ Range(inv[p].report[1].modified) =
                 {k \in FileKeys(p) \cap DOMAIN remote[inv[p].project] :
                    \E f \in {"value", "protected", "masked", "variable_type"} :
                        FieldDiffers(Declared(p, k), remote[inv[p].project][k], f)}
            /\ InKeyOrder(inv[p].report[1].added)
            /\ InKeyOrder(inv[p].report[1].removed)
            /\ InKeyOrder(inv[p].report[1].modified)

\* A diff in which one key differs in the description alone and is not
\* reported, while the other key is reported as modified.
C14_Witness ==
    \E p \in Invs :
        /\ inv[p].op = "diff" /\ inv[p].report # <<>>
        /\ inv[p].report[1].modified # <<>>
        /\ \E k \in FileKeys(p) \cap DOMAIN remote[inv[p].project] :
             /\ k \notin Range(inv[p].report[1].modified)
             /\ "description" \in DOMAIN Declared(p, k)
             /\ Declared(p, k).description # remote[inv[p].project][k].description

\* The keys the file declares more than once.
DuplicateKeys(p) ==
    {k \in FileKeys(p) :
        Cardinality({n \in DOMAIN FileVariables(p) : FileVariables(p)[n].key = k}) > 1}

\* Diff decides "modified" for a key declared twice by its last declaration,
\* and push never deletes such a key.
LastDeclarationDecides(p) ==
    /\ (inv[p].op = "diff" /\ inv[p].report # <<>>) =>
         \A k \in DuplicateKeys(p) \cap DOMAIN remote[inv[p].project] :
             k \in Range(inv[p].report[1].modified) <=>
                 ~SameCoreFields(remote[inv[p].project][k], Declared(p, k))
                   \/ \E f \in {"value", "protected", "masked", "variable_type"} :
                        f \notin DOMAIN Declared(p, k)
    /\ inv[p].op = "push" => DuplicateKeys(p) \cap DeletedKeys(p) = {}

\* C15 as the spec states it: for a key the file declares more than once,
\* diff and push's delete loop go by the last declaration, and after an
\* import or push in which no call failed the remote variable of the key has
\* the value, protected, masked and variable_type of the last declaration.
C15_LastDeclarationWinsAlways ==
    \A p \in Invs :
        /\ LastDeclarationDecides(p)
        /\ (inv[p].op \in {"import", "push"} /\ ReturnedOk(p) /\ FailedCalls(p) = {}) =>
             \A k \in DuplicateKeys(p) \cap DOMAIN remote[inv[p].project] :
                 SameCoreFields(remote[inv[p].project][k], Declared(p, k))

\* C15 amended: the same, for the import or push that did not skip the last
\* declaration (an import without --force skips a masked declaration with an
\* empty value, and the remote variable then keeps what an earlier
\* declaration or the project gave it).
C15_LastDeclarationWins ==
    \A p \in Invs :
        /\ LastDeclarationDecides(p)
        /\ (inv[p].op \in {"import", "push"} /\ ReturnedOk(p) /\ FailedCalls(p) = {}) =>
             \A k \in DuplicateKeys(p) \cap DOMAIN remote[inv[p].project] :
                 ~(MaskedEmpty(Declared(p, k)) /\ ~inv[p].force) =>
                     SameCoreFields(remote[inv[p].project][k], Declared(p, k))

\* An import that updated a key twice, from two declarations with different
\* values, and left the remote variable with the second one's.
C15_Witness ==
    \E p \in Invs :
        /\ inv[p].op = "import" /\ ReturnedOk(p) /\ FailedCalls(p) = {}
        /\ Len(inv[p].import_vars) = 2
        /\ inv[p].import_vars[1].key = inv[p].import_vars[2].key
        /\ "value" \in DOMAIN inv[p].import_vars[1]
        /\ "value" \in DOMAIN inv[p].import_vars[2]
        /\ inv[p].import_vars[1].value # inv[p].import_vars[2].value
        /\ inv[p].updated = 2
        /\ remote[inv[p].project][inv[p].import_vars[2].key].value
             = inv[p].import_vars[2].value

\* A redacted export of p1 has been written and the unforced import of the
\* file into p1 has begun.
RedactedReimport ==
    /\ inv[1].op = "export" /\ ~inv[1].include_masked /\ ReturnedOk(1)
    /\ inv[2].op = "import" /\ ~inv[2].arg_force /\ inv[2].project = "p1"

\* C17: an export without --include-masked followed by an import without
\* --force of the written file into the same project sends no create or
\* update for a masked variable, and in every state of the import every
\* remote variable has the value, protected, masked and variable_type the
\* export fetched.
C17_RedactedReimportKeepsSecrets ==
    RedactedReimport =>
        /\ \A c \in Range(inv[2].calls) :
               c.op \in {"create", "update"} => ~inv[1].variables[c.key].masked
        /\ DOMAIN remote["p1"] = DOMAIN inv[1].variables
        /\ \A k \in DOMAIN remote["p1"] :
               SameCoreFields(remote["p1"][k], inv[1].variables[k])

\* A re-import that skipped a masked variable and updated an unmasked one.
C17_Witness ==
    /\ RedactedReimport /\ ReturnedOk(2) /\ FailedCalls(2) = {}
    /\ inv[2].skipped >= 1 /\ inv[2].updated >= 1
    /\ \E k \in DOMAIN remote["p1"] :
         remote["p1"][k].masked /\ remote["p1"][k].value = "s"

\* C16: after a push of a file in which no call failed, a diff of the same
\* file against the same project reports no added, no removed and no
\* modified key.
C16_PushThenDiffEmpty ==
    (/\ inv[1].op = "push" /\ ReturnedOk(1) /\ FailedCalls(1) = {}
     /\ inv[2].op = "diff" /\ inv[2].report # <<>>) =>
        /\ inv[2].report[1].added = <<>>
        /\ inv[2].report[1].removed = <<>>
        /\ inv[2].report[1].modified = <<>>

\* The create and update calls of invocation p for key k.
Writes(p, k) ==
    {c \in Range(inv[p].calls) : c.op \in {"create", "update"} /\ c.key = k}

\* The only calls that failed are creates of a key the other invocation had
\* created before: no request was lost to the network.
OnlyRaceFailures ==
    \A p \in Invs : \A n \in FailedCalls(p) :
        /\ inv[p].calls[n].op = "create"
        /\ \E q \in Invs \ {p} : \E d \in Writes(q, inv[p].calls[n].key) :
               d.op = "create" /\ d.ok /\ d.at < inv[p].calls[n].at

\* C11: when two imports or pushes have run together on one project and both
\* have finished, every key both wrote has the value sent by the write call
\* that was issued last.
C11_LastWriterWins ==
    (/\ \A p \in Invs : inv[p].op \in {"import", "push"} /\ ReturnedOk(p)
     /\ inv[1].project = inv[2].project
     /\ OnlyRaceFailures) =>
        \A k \in Keys :
            (Writes(1, k) # {} /\ Writes(2, k) # {}) =>
                \A p \in Invs : \A c \in Writes(p, k) :
                    (\A q \in Invs : \A d \in Writes(q, k) : d.at <= c.at) =>
                        /\ k \in DOMAIN remote[inv[p].project]
                        /\ remote[inv[p].project][k].value
                             = inv[p].import_vars[c.idx].value

====
